---- MODULE Spec2Model ----
(***************************************************************************)
(* The QA-GPT pipeline: the AgentState dictionary, the nineteen-node graph  *)
(* wired by build_graph, the generator / judge / human-review nodes and the *)
(* routing functions, as one state machine.                                 *)
(*                                                                          *)
(* AgentState is modelled as a function from key strings to values, read    *)
(* with StateGet (dict.get with a default) and written with StateUpdate     *)
(* (the merge of a node's returned partial dict into the state: keys that   *)
(* are not fields of AgentState are not channels of the graph and are       *)
(* dropped).                                                                *)
(***************************************************************************)
EXTENDS Integers, Sequences, FiniteSets, TLC

VARIABLES
    state,        \* the AgentState of the run (checkpointed values)
    next_node,    \* the node the graph executes next, or END
    interrupted,  \* TRUE while a human-review node waits inside interrupt()
    escaped,      \* exception that left graph.stream(), or "none"
    last,         \* what the most recent node execution did and returned
    gen_runs,     \* per kind: generator executions since the kind's last gate entry
    gate_entries, \* per kind: number of times the gate suspended the run
    generations,  \* per kind: generator executions that returned a document
    used,         \* how often the environment took each bounded choice
    checkpointers, \* per compiled graph: the MemorySaver's checkpoint of each thread
    streaming,    \* the (graph, thread) pairs that are inside graph.stream()
    event,        \* what the most recent call on a compiled graph did
    spent         \* node executions per thread and calls made by callers

run_vars == <<state, next_node, interrupted, escaped, last, gen_runs, gate_entries,
              generations, used>>

controller_vars == <<checkpointers, streaming, event, spent>>

vars == <<state, next_node, interrupted, escaped, last, gen_runs, gate_entries,
          generations, used, checkpointers, streaming, event, spent>>

-----------------------------------------------------------------------------
(* Bounds of the exploration *)

MaxGenRuns == 4         \* generator executions of a kind between two gate entries
MaxGenFailures == 2     \* generator executions that raise, per run
MaxFails == 3           \* FAIL verdicts returned by the evaluators, per run
MaxNeedsHuman == 1      \* NEEDS_HUMAN verdicts returned by the evaluators, per run
MaxEdits == 1           \* EDIT decisions, per run
MaxRejects == 1         \* decisions handled as REJECT, per run
MaxThreadSteps == 4     \* node executions of one thread that returned or raised
MaxCalls == 2           \* resume and get_state calls made by callers

(* Values a caller may store under max_judge_iterations (absent: default) *)
MaxIterationChoices == {2}

-----------------------------------------------------------------------------
(* Enumerations of state.py *)

END == "__end__"

QA_INTERACTION == "qa_interaction"
REQUIREMENTS_SPEC_GEN == "requirements_spec_gen"
JUDGE_REQUIREMENTS == "judge_requirements"
HUMAN_REVIEW_SPEC == "human_review_spec"
STRATEGY == "strategy"
JUDGE_STRATEGY == "judge_strategy"
HUMAN_REVIEW_STRATEGY == "human_review_strategy"
TEST_CASE_GENERATION == "test_case_generation"
JUDGE_TEST_CASES == "judge_test_cases"
HUMAN_REVIEW_TEST_CASES == "human_review_test_cases"
CODE_STRUCTURE_PLANNING == "code_structure_planning"
JUDGE_CODE_PLAN == "judge_code_plan"
HUMAN_REVIEW_CODE_PLAN == "human_review_code_plan"
SCRIPTING == "scripting"
JUDGE_CODE == "judge_code"
HUMAN_REVIEW_CODE == "human_review_code"
EXECUTION == "execution"
HEALING == "healing"
REPORTING == "reporting"
COMPLETED == "completed"
FAILED == "failed"

WorkflowStage ==
    { QA_INTERACTION, REQUIREMENTS_SPEC_GEN, JUDGE_REQUIREMENTS, HUMAN_REVIEW_SPEC,
      STRATEGY, JUDGE_STRATEGY, HUMAN_REVIEW_STRATEGY, TEST_CASE_GENERATION,
      JUDGE_TEST_CASES, HUMAN_REVIEW_TEST_CASES, CODE_STRUCTURE_PLANNING,
      JUDGE_CODE_PLAN, HUMAN_REVIEW_CODE_PLAN, SCRIPTING, JUDGE_CODE,
      HUMAN_REVIEW_CODE, EXECUTION, HEALING, REPORTING, COMPLETED, FAILED }

JudgeResult == {"PASS", "FAIL", "NEEDS_HUMAN"}

None == "None"

(* Texts are sequences of pieces, so that a formatted message keeps its     *)
(* parts; NoText is the None of an Optional[str] field.                     *)
NoText == << >>

Text(piece) == <<piece>>

Mentions(text, piece) == \E i \in 1..Len(text) : text[i] = piece

-----------------------------------------------------------------------------
(* Dictionary access *)

StateGet(s, key, default) == IF key \in DOMAIN s THEN s[key] ELSE default

Has(s, key) == key \in DOMAIN s

(* the fields of AgentState that the pipeline's nodes read or write *)
AgentStateKeys ==
    { "workflow_status", "current_stage", "error_message",
      "qa_sessions", "qa_completed", "qa_iteration_count",
      "requirements_spec_content", "current_requirements_spec_version",
      "requirements_spec_history", "judge_requirements_evaluation",
      "requirements_iteration_count",
      "strategy_content", "current_strategy_version", "strategy_history",
      "judge_strategy_evaluation", "strategy_iteration_count",
      "gherkin_content", "current_test_cases_version", "test_cases_history",
      "judge_test_cases_evaluation", "test_cases_iteration_count",
      "gherkin_validation_passed",
      "code_plan_content", "current_code_plan_version", "code_plan_history",
      "judge_code_plan_evaluation", "code_plan_iteration_count",
      "script_content", "script_filename", "current_script_version",
      "script_history", "judge_code_evaluation", "script_iteration_count",
      "approval_gates", "human_feedback",
      "accumulated_cost_usd", "max_judge_iterations" }

(* merge of a node's returned partial dict into the state *)
StateUpdate(s, delta) ==
    [k \in DOMAIN s \cup (DOMAIN delta \cap AgentStateKeys) |->
        IF k \in DOMAIN delta THEN delta[k] ELSE s[k]]

EmptyDict == [k \in {} |-> None]

-----------------------------------------------------------------------------
(* The five artifact kinds, named as their approval gates *)

Kinds == {"spec", "strategy", "test_cases", "code_plan", "code"}

ApprovalGate(gate_name, status, reviewer, feedback, document_version) ==
    [gate_name |-> gate_name, status |-> status, reviewer |-> reviewer,
     feedback |-> feedback, document_version |-> document_version]

(* document_version of a gate nobody decided yet (None in the dataclass) *)
NoVersion == -1

(* ApprovalGate(gate_name=...) with a default status of approved *)
PendingGate_approved(gate_name) == ApprovalGate(gate_name, "approved", None, NoText, NoVersion)

PendingGate(gate_name) == ApprovalGate(gate_name, "pending", None, NoText, NoVersion)

NoContent == [by |-> "none", n |-> 0]

create_initial_state ==
    [ workflow_status |-> "RUNNING",
      current_stage |-> QA_INTERACTION,
      error_message |-> NoText,
      qa_sessions |-> << >>,
      qa_completed |-> FALSE,
      qa_iteration_count |-> 0,
      requirements_spec_content |-> NoContent,
      current_requirements_spec_version |-> 0,
      requirements_spec_history |-> << >>,
      requirements_iteration_count |-> 0,
      strategy_content |-> NoContent,
      current_strategy_version |-> 0,
      strategy_history |-> << >>,
      strategy_iteration_count |-> 0,
      gherkin_content |-> NoContent,
      current_test_cases_version |-> 0,
      test_cases_history |-> << >>,
      test_cases_iteration_count |-> 0,
      gherkin_validation_passed |-> FALSE,
      code_plan_content |-> NoContent,
      current_code_plan_version |-> 0,
      code_plan_history |-> << >>,
      code_plan_iteration_count |-> 0,
      script_content |-> NoContent,
      script_filename |-> "",
      current_script_version |-> 0,
      script_history |-> << >>,
      script_iteration_count |-> 0,
      approval_gates |-> [g \in Kinds |-> PendingGate(g)],
      human_feedback |-> NoText,
      accumulated_cost_usd |-> 0 ]

-----------------------------------------------------------------------------
(* Routing: edges/conditional.py and the destination maps of build_graph *)

(* The stage names stand for the members of WorkflowStage and for their    *)
(* values.  A dict may say under "current_stage.__class__" of which class   *)
(* its current_stage is; without it the value is a member of WorkflowStage, *)
(* which is what every node returns.                                        *)

(* _safe_get_stage_value returning a stage held as a string unexamined *)
_safe_get_stage_value_str_as_is(s) ==
    LET current_stage == StateGet(s, "current_stage", FAILED)
        class == IF Has(s, "current_stage")
                 THEN StateGet(s, "current_stage.__class__", "WorkflowStage")
                 ELSE "WorkflowStage"
    IN CASE class = "WorkflowStage" -> IF current_stage = FAILED THEN END ELSE current_stage
         [] class = "str" -> current_stage
         [] OTHER -> END

_safe_get_stage_value(s) ==
    LET current_stage == StateGet(s, "current_stage", FAILED)
        class == IF Has(s, "current_stage")
                 THEN StateGet(s, "current_stage.__class__", "WorkflowStage")
                 ELSE "WorkflowStage"
    IN CASE class = "WorkflowStage" -> IF current_stage = FAILED THEN END ELSE current_stage
         [] class = "str" -> IF current_stage = FAILED THEN END ELSE current_stage
         [] OTHER -> END

route_after_qa_interaction(s) == _safe_get_stage_value(s)
route_after_judge_requirements(s) == _safe_get_stage_value(s)
route_after_human_review_spec(s) == _safe_get_stage_value(s)
route_after_judge_strategy(s) == _safe_get_stage_value(s)
route_after_human_review_strategy(s) == _safe_get_stage_value(s)
route_after_judge_test_cases(s) == _safe_get_stage_value(s)
route_after_human_review_test_cases(s) == _safe_get_stage_value(s)
route_after_judge_code_plan(s) == _safe_get_stage_value(s)
route_after_human_review_code_plan(s) == _safe_get_stage_value(s)
route_after_judge_code(s) == _safe_get_stage_value(s)
route_after_human_review_code(s) == _safe_get_stage_value(s)

Map3(k1, v1, k2, v2, k3, v3) == (k1 :> v1) @@ (k2 :> v2) @@ (k3 :> v3)

(* the path maps with a rejection at the strategy gate wired back to the    *)
(* specification generator                                                  *)
conditional_edges_strategy_back ==
    [ qa_interaction |->
        (REQUIREMENTS_SPEC_GEN :> "requirements_spec_gen") @@ (FAILED :> END),
      judge_requirements |->
        Map3(HUMAN_REVIEW_SPEC, "human_review_spec",
             REQUIREMENTS_SPEC_GEN, "requirements_spec_gen", FAILED, END),
      human_review_spec |->
        Map3(STRATEGY, "strategy",
             REQUIREMENTS_SPEC_GEN, "requirements_spec_gen", FAILED, END),
      judge_strategy |->
        Map3(HUMAN_REVIEW_STRATEGY, "human_review_strategy",
             STRATEGY, "strategy", FAILED, END),
      human_review_strategy |->
        Map3(TEST_CASE_GENERATION, "test_case_generation",
             STRATEGY, "requirements_spec_gen", FAILED, END),
      judge_test_cases |->
        Map3(HUMAN_REVIEW_TEST_CASES, "human_review_test_cases",
             TEST_CASE_GENERATION, "test_case_generation", FAILED, END),
      human_review_test_cases |->
        Map3(CODE_STRUCTURE_PLANNING, "code_structure_planning",
             TEST_CASE_GENERATION, "test_case_generation", FAILED, END),
      judge_code_plan |->
        Map3(HUMAN_REVIEW_CODE_PLAN, "human_review_code_plan",
             CODE_STRUCTURE_PLANNING, "code_structure_planning", FAILED, END),
      human_review_code_plan |->
        Map3(SCRIPTING, "scripting",
             CODE_STRUCTURE_PLANNING, "code_structure_planning", FAILED, END),
      judge_code |->
        Map3(HUMAN_REVIEW_CODE, "human_review_code",
             SCRIPTING, "scripting", FAILED, END),
      human_review_code |->
        Map3(COMPLETED, END, SCRIPTING, "scripting", FAILED, END) ]

(* the path maps given to add_conditional_edges, per source node *)
conditional_edges ==
    [ qa_interaction |->
        (REQUIREMENTS_SPEC_GEN :> "requirements_spec_gen") @@ (FAILED :> END),
      judge_requirements |->
        Map3(HUMAN_REVIEW_SPEC, "human_review_spec",
             REQUIREMENTS_SPEC_GEN, "requirements_spec_gen", FAILED, END),
      human_review_spec |->
        Map3(STRATEGY, "strategy",
             REQUIREMENTS_SPEC_GEN, "requirements_spec_gen", FAILED, END),
      judge_strategy |->
        Map3(HUMAN_REVIEW_STRATEGY, "human_review_strategy",
             STRATEGY, "strategy", FAILED, END),
      human_review_strategy |->
        Map3(TEST_CASE_GENERATION, "test_case_generation",
             STRATEGY, "strategy", FAILED, END),
      judge_test_cases |->
        Map3(HUMAN_REVIEW_TEST_CASES, "human_review_test_cases",
             TEST_CASE_GENERATION, "test_case_generation", FAILED, END),
      human_review_test_cases |->
        Map3(CODE_STRUCTURE_PLANNING, "code_structure_planning",
             TEST_CASE_GENERATION, "test_case_generation", FAILED, END),
      judge_code_plan |->
        Map3(HUMAN_REVIEW_CODE_PLAN, "human_review_code_plan",
             CODE_STRUCTURE_PLANNING, "code_structure_planning", FAILED, END),
      human_review_code_plan |->
        Map3(SCRIPTING, "scripting",
             CODE_STRUCTURE_PLANNING, "code_structure_planning", FAILED, END),
      judge_code |->
        Map3(HUMAN_REVIEW_CODE, "human_review_code",
             SCRIPTING, "scripting", FAILED, END),
      human_review_code |->
        Map3(COMPLETED, END, SCRIPTING, "scripting", FAILED, END) ]

(* the unconditional edges added with add_edge *)
edges ==
    [ requirements_spec_gen |-> "judge_requirements",
      strategy |-> "judge_strategy",
      test_case_generation |-> "judge_test_cases",
      code_structure_planning |-> "judge_code_plan",
      scripting |-> "judge_code",
      execution |-> "reporting",
      healing |-> "reporting",
      reporting |-> END ]

-----------------------------------------------------------------------------
(* What a node execution produced: the exception that left the node (or     *)
(* "none"), the partial dict it returned, the number of collaborator calls  *)
(* it made, and what it logged about its iteration.                         *)

NodeResult(raised, ret, calls, log) ==
    [raised |-> raised, ret |-> ret, calls |-> calls, log |-> log]

Raised(exception, calls) == NodeResult(exception, EmptyDict, calls, EmptyDict)

Returned(ret, calls) == NodeResult("none", ret, calls, EmptyDict)

(* the except branch also writing a zero cost *)
FailedReturn_cost_reset(error_message) ==
    [ workflow_status |-> "FAILED",
      error_message |-> error_message,
      current_stage |-> FAILED,
      accumulated_cost_usd |-> 0 ]

(* the dict every node returns from its except branch *)
FailedReturn(error_message) ==
    [ workflow_status |-> "FAILED",
      error_message |-> error_message,
      current_stage |-> FAILED ]

(* cost_usd reported by one successful collaborator call *)
CostPerCall == 1

DocumentVersion(document_type, version, content) ==
    [document_type |-> document_type, version |-> version, content |-> content,
     created_by |-> "ai", is_approved |-> FALSE]

(* Outcomes of building the prompt and calling the collaborator in a node:  *)
(* the call returns, call_llm raises RuntimeError, or the node's own        *)
(* processing raises an exception of another class.                         *)
CallOutcomes == {"ok", "RuntimeError", "OtherError"}

-----------------------------------------------------------------------------
(* qa_interaction_node.  response: the outcome of the call and, when it     *)
(* returned parseable JSON, its can_proceed flag.                           *)

QAResponses ==
    { [outcome |-> o, can_proceed |-> c] : o \in CallOutcomes, c \in BOOLEAN }

qa_interaction_node(s, response) ==
    LET qa_sessions == StateGet(s, "qa_sessions", << >>)
        qa_iteration_count == StateGet(s, "qa_iteration_count", 0)
        updated_sessions == Append(qa_sessions, qa_iteration_count + 1)
        force_proceed == qa_iteration_count >= 2
        cost == StateGet(s, "accumulated_cost_usd", 0) + CostPerCall
    IN CASE response.outcome = "RuntimeError" ->
              Returned(FailedReturn(Text("RuntimeError")), 1)
         [] response.outcome = "OtherError" ->
              Raised("OtherError", 1)
         [] OTHER ->
              IF response.can_proceed \/ force_proceed
              THEN Returned([ qa_sessions |-> updated_sessions,
                              qa_iteration_count |-> qa_iteration_count + 1,
                              qa_completed |-> TRUE,
                              current_stage |-> REQUIREMENTS_SPEC_GEN,
                              accumulated_cost_usd |-> cost ], 1)
              ELSE Returned([ qa_sessions |-> updated_sessions,
                              qa_iteration_count |-> qa_iteration_count + 1,
                              qa_completed |-> FALSE,
                              current_stage |-> QA_INTERACTION,
                              accumulated_cost_usd |-> cost ], 1)

-----------------------------------------------------------------------------
(* The generator nodes.  Each reads and writes the state under the key      *)
(* names its source uses.                                                   *)

GeneratorKeys(content_key, version_key, history_key, iteration_key, document_type, judge_stage, catches_exception) ==
    [ content_key |-> content_key, version_key |-> version_key,
      history_key |-> history_key, iteration_key |-> iteration_key,
      document_type |-> document_type, judge_stage |-> judge_stage,
      catches_exception |-> catches_exception ]

(* The body shared by the four single-call generators.  Only strategy_node  *)
(* catches every exception; the others catch RuntimeError, so an exception  *)
(* of another class raised while they build the prompt (str.format on a     *)
(* template that names a field the node does not pass raises KeyError) or   *)
(* process the response leaves the node.                                    *)
generate_document(s, keys, outcome) ==
    LET iteration_count == StateGet(s, keys.iteration_key, 0)
        current_version == StateGet(s, keys.version_key, 0)
        new_version == current_version + 1
        content == [by |-> "ai", n |-> iteration_count + 1]
        doc_version == DocumentVersion(keys.document_type, new_version, content)
        updated_history == Append(StateGet(s, keys.history_key, << >>), doc_version)
    IN CASE outcome = "RuntimeError" ->
              Returned(FailedReturn(Text("RuntimeError")), 1)
         [] outcome = "OtherError" ->
              IF keys.catches_exception
              THEN Returned(FailedReturn(Text("OtherError")), 1)
              ELSE Raised("OtherError", 1)
         [] OTHER ->
              Returned(
                  (keys.content_key :> content)
                  @@ (keys.version_key :> new_version)
                  @@ (keys.history_key :> updated_history)
                  @@ (keys.iteration_key :> iteration_count + 1)
                  @@ ("current_stage" :> keys.judge_stage)
                  @@ ("accumulated_cost_usd" :>
                        StateGet(s, "accumulated_cost_usd", 0) + CostPerCall),
                  1)

requirements_spec_gen_node(s, outcome) ==
    generate_document(s,
        GeneratorKeys("requirements_spec_content", "current_requirements_spec_version",
                      "requirements_spec_history", "requirements_iteration_count",
                      "requirements_spec", JUDGE_REQUIREMENTS, FALSE),
        outcome)

(* strategy_node keeping only the new version in the history *)
strategy_node_history_reset(s, outcome) ==
    LET r == generate_document(s,
                 GeneratorKeys("strategy_content", "current_strategy_version",
                               "strategy_history", "strategy_iteration_count",
                               "strategy", JUDGE_STRATEGY, TRUE),
                 outcome)
    IN IF Has(r.ret, "strategy_history")
       THEN [r EXCEPT !.ret = [@ EXCEPT !["strategy_history"] = << @[Len(@)] >>]]
       ELSE r

strategy_node(s, outcome) ==
    generate_document(s,
        GeneratorKeys("strategy_content", "current_strategy_version",
                      "strategy_history", "strategy_iteration_count",
                      "strategy", JUDGE_STRATEGY, TRUE),
        outcome)

code_structure_planning_node(s, outcome) ==
    generate_document(s,
        GeneratorKeys("code_plan_content", "current_code_plan_version",
                      "code_plan_history", "code_plan_iteration_count",
                      "code_plan", JUDGE_CODE_PLAN, FALSE),
        outcome)

scripting_node(s, outcome) ==
    LET r == generate_document(s,
                 GeneratorKeys("script_content", "current_script_version",
                               "script_history", "script_iteration_count",
                               "script", JUDGE_CODE, FALSE),
                 outcome)
    IN IF r.raised = "none" /\ "script_content" \in DOMAIN r.ret
       THEN [r EXCEPT !.ret = ("script_filename" :> "test_generated.py") @@ @]
       ELSE r

(* test_case_generation_node.  attempts: the outcomes of the generation     *)
(* calls in order, each "valid" or "invalid" (the call returned and         *)
(* validate_gherkin accepted or refused its output), "RuntimeError" or      *)
(* "OtherError"; the loop makes a second call only after an invalid first.  *)
max_internal_attempts == 2

AttemptOutcomes == {"valid", "invalid", "RuntimeError", "OtherError"}

GherkinAttempts ==
    { <<a>> : a \in AttemptOutcomes }
    \cup { <<"invalid", a>> : a \in AttemptOutcomes }

test_case_generation_node(s, attempts) ==
    LET test_cases_iteration_count == StateGet(s, "test_cases_iteration_count", 0)
        judge_evaluation_set == Has(s, "judge_test_cases_evaluation")
        current_version == StateGet(s, "current_gherkin_version", 0)
        calls == Len(attempts)
        final == attempts[calls]
        new_version == current_version + 1
        gherkin_content == [by |-> "ai", n |-> test_cases_iteration_count + 1]
        doc_version == DocumentVersion("gherkin", new_version, gherkin_content)
        updated_history == Append(StateGet(s, "gherkin_history", << >>), doc_version)
    IN IF judge_evaluation_set
       THEN \* "judge_evaluation and test_case_iteration_count > 0": the second
            \* operand names a variable the function never binds
            Raised("NameError", 0)
       ELSE CASE final = "RuntimeError" ->
                   Returned(FailedReturn(Text("RuntimeError")), calls)
              [] final = "OtherError" ->
                   Raised("OtherError", calls)
              [] OTHER ->
                   Returned(
                       [ gherkin_content |-> gherkin_content,
                         gherkin_validation_passed |-> (final = "valid"),
                         current_gherkin_version |-> new_version,
                         gherkin_history |-> updated_history,
                         test_cases_iteration_count |-> test_cases_iteration_count + 1,
                         current_stage |-> JUDGE_TEST_CASES,
                         accumulated_cost_usd |->
                             StateGet(s, "accumulated_cost_usd", 0) + CostPerCall ],
                       calls)

-----------------------------------------------------------------------------
(* The judges: _judge_base.run_judge and the five judge nodes.              *)

DefaultMaxJudgeIterations == 3

(* Issue texts the evaluator may write, and the substrings the code-plan    *)
(* judge searches for in their lower-cased form.                            *)
Substrings(text) ==
    CASE text = "duplicate utility" -> {"duplicate"}
      [] text = "duplicate" -> {"duplicate"}
      [] text = "Violates the naming convention" -> {"convention", "violat"}
      [] text = "convention" -> {"convention"}
      [] OTHER -> {}

Issue(type, description) == [type |-> type, description |-> description]

IssueChoices ==
    { << >>,
      << Issue("traceability", "No tags") >>,
      << Issue("duplication", "duplicate utility") >>,
      << Issue("convention", "Violates the naming convention") >>,
      << Issue("duplicate", "No tags") >>,
      << Issue("Violates the naming convention", "convention") >> }

JudgeJson(score, result, feedback, issues) ==
    [score |-> score, result |-> result, feedback |-> feedback, issues |-> issues]

(* what the evaluator call gives back: an exception, text without JSON, or  *)
(* a JSON object, complete or lacking some of the required fields; the      *)
(* issue lists of a FAIL are drawn from fail_issues, those of the other     *)
(* verdicts from other_issues                                               *)
JudgeResponsesWith(fail_issues, other_issues) ==
    { [outcome |-> o, json |-> EmptyDict] : o \in {"RuntimeError", "unparseable"} }
    \cup { [outcome |-> "ok", json |-> JudgeJson(58, "FAIL", "fb", i)] : i \in fail_issues }
    \cup { [outcome |-> "ok", json |-> JudgeJson(58, r, "fb", i)] :
             r \in (JudgeResult \cup {"MAYBE"}) \ {"FAIL"}, i \in other_issues }
    \cup { [outcome |-> "ok",
            json |-> [k \in keys |-> JudgeJson(58, "FAIL", "fb", << >>)[k]]] :
             keys \in { {"result", "feedback", "issues"}, {"score", "feedback", "issues"},
                        {"score", "result", "issues"}, {} } }

(* only the code-plan judge looks into the issues *)
JudgeResponses ==
    JudgeResponsesWith({ << Issue("traceability", "No tags") >> },
                       { << Issue("traceability", "No tags") >> })

CodePlanJudgeResponses ==
    JudgeResponsesWith(IssueChoices, { << Issue("duplication", "duplicate utility") >> })

JudgeEvaluation(score, result, feedback, issues) ==
    [score |-> score, result |-> result, feedback |-> feedback, issues |-> issues]

JudgeFailed(trace_name, cause) ==
    [ workflow_status |-> "FAILED",
      error_message |-> <<"Judge ", trace_name, " failed: ", cause>>,
      current_stage |-> FAILED ]

(* evaluation_error without the check of the verdict tag: any tag is taken  *)
(* as a verdict                                                             *)
evaluation_error_any_tag(response) ==
    LET result_json == response.json
    IN CASE response.outcome = "RuntimeError" -> "RuntimeError"
         [] response.outcome = "unparseable" -> "ValueError"
         [] ~Has(result_json, "score") -> "KeyError: score"
         [] ~Has(result_json, "result") -> "KeyError: result"
         [] ~Has(result_json, "feedback") -> "KeyError: feedback"
         [] OTHER -> "none"

(* The failure of the try block before routing: the exception of call_llm,  *)
(* of extract_json_from_response, or of building the JudgeEvaluation from   *)
(* the JSON (score, result and feedback are read in this order); "none"     *)
(* when the evaluation was built.                                           *)
evaluation_error(response) ==
    LET result_json == response.json
    IN CASE response.outcome = "RuntimeError" -> "RuntimeError"
         [] response.outcome = "unparseable" -> "ValueError"
         [] ~Has(result_json, "score") -> "KeyError: score"
         [] ~Has(result_json, "result") -> "KeyError: result"
         [] result_json["result"] \notin JudgeResult -> "ValueError: result"
         [] ~Has(result_json, "feedback") -> "KeyError: feedback"
         [] OTHER -> "none"

run_judge(s, response, trace_name, failure_stage, human_review_stage, pass_stage, iteration_count_key, evaluation_key) ==
    LET iteration_count == StateGet(s, iteration_count_key, 0)
        max_iterations == StateGet(s, "max_judge_iterations", DefaultMaxJudgeIterations)
        is_final_iteration == iteration_count >= (max_iterations - 1)
        result_json == response.json
        error == evaluation_error(response)
        override == is_final_iteration /\ result_json["result"] = "FAIL"
        result == IF override THEN "NEEDS_HUMAN" ELSE result_json["result"]
        feedback ==
            IF override
            THEN << "[MAX ITERATIONS REACHED] ", result_json["feedback"],
                    "This document has been regenerated ", ToString(iteration_count),
                    " times" >>
            ELSE Text(result_json["feedback"])
        evaluation == JudgeEvaluation(result_json["score"], result, feedback,
                                      StateGet(result_json, "issues", << >>))
        next_stage == CASE result = "PASS" -> pass_stage
                        [] result = "FAIL" -> failure_stage
                        [] OTHER -> human_review_stage
        outcome ==
            IF error # "none"
            THEN Returned(JudgeFailed(trace_name, error), 1)
            ELSE Returned(
                     (evaluation_key :> evaluation)
                     @@ ("current_stage" :> next_stage)
                     @@ ("accumulated_cost_usd" :>
                           StateGet(s, "accumulated_cost_usd", 0) + CostPerCall),
                     1)
    IN [outcome EXCEPT !.log = [iteration |-> iteration_count,
                                max_iterations |-> max_iterations,
                                final |-> is_final_iteration]]

judge_requirements_node(s, response) ==
    run_judge(s, response, "judge_requirements", REQUIREMENTS_SPEC_GEN,
              HUMAN_REVIEW_SPEC, HUMAN_REVIEW_SPEC,
              "requirements_iteration_count", "judge_requirements_evaluation")

judge_strategy_node(s, response) ==
    run_judge(s, response, "judge_strategy", STRATEGY,
              HUMAN_REVIEW_STRATEGY, HUMAN_REVIEW_STRATEGY,
              "strategy_iteration_count", "judge_strategy_evaluation")

judge_test_cases_node(s, response) ==
    run_judge(s, response, "judge_test_cases", TEST_CASE_GENERATION,
              HUMAN_REVIEW_TEST_CASES, HUMAN_REVIEW_TEST_CASES,
              "test_case_iteration_count", "judge_test_cases_evaluation")

judge_code_node(s, response) ==
    run_judge(s, response, "judge_code", SCRIPTING,
              HUMAN_REVIEW_CODE, HUMAN_REVIEW_CODE,
              "script_iteration_count", "judge_code_evaluation")

(* has_critical_issue taking the word convention alone for a violation *)
has_critical_issue_convention_alone(issues) ==
    \E i \in 1..Len(issues) :
        \/ "duplicate" \in Substrings(issues[i].description)
        \/ "duplicate" \in Substrings(issues[i].type)
        \/ "convention" \in Substrings(issues[i].description)

(* has_critical_issue taking every reported issue for a critical one *)
has_critical_issue_any(issues) == Len(issues) > 0

(* the scan of judge_code_plan_node over evaluation.issues *)
has_critical_issue(issues) ==
    \E i \in 1..Len(issues) :
        \/ "duplicate" \in Substrings(issues[i].description)
        \/ "duplicate" \in Substrings(issues[i].type)
        \/ /\ "convention" \in Substrings(issues[i].description)
           /\ "violat" \in Substrings(issues[i].description)

(* judge_code_plan_node scanning the issues before the iteration cap *)
judge_code_plan_node_issues_first(s, response) ==
    LET result == run_judge(s, response, "judge_code_plan", CODE_STRUCTURE_PLANNING,
                            HUMAN_REVIEW_CODE_PLAN, HUMAN_REVIEW_CODE_PLAN,
                            "code_plan_iteration_count", "judge_code_plan_evaluation")
    IN IF Has(result.ret, "judge_code_plan_evaluation")
       THEN IF /\ StateGet(response.json, "result", "none") = "FAIL"
               /\ has_critical_issue(result.ret["judge_code_plan_evaluation"].issues)
            THEN [result EXCEPT !.ret = [@ EXCEPT !["current_stage"] = CODE_STRUCTURE_PLANNING]]
            ELSE [result EXCEPT !.ret = [@ EXCEPT !["current_stage"] = HUMAN_REVIEW_CODE_PLAN]]
       ELSE result

judge_code_plan_node(s, response) ==
    LET result == run_judge(s, response, "judge_code_plan", CODE_STRUCTURE_PLANNING,
                            HUMAN_REVIEW_CODE_PLAN, HUMAN_REVIEW_CODE_PLAN,
                            "code_plan_iteration_count", "judge_code_plan_evaluation")
    IN IF /\ Has(result.ret, "judge_code_plan_evaluation")
          /\ result.ret["current_stage"] = CODE_STRUCTURE_PLANNING
          /\ ~has_critical_issue(result.ret["judge_code_plan_evaluation"].issues)
       THEN [result EXCEPT !.ret = [@ EXCEPT !["current_stage"] = HUMAN_REVIEW_CODE_PLAN]]
       ELSE result

-----------------------------------------------------------------------------
(* The approval gates: _human_review_base and the five human-review nodes.  *)

(* payloads a caller may pass to Command(resume=...) *)
HumanResponses ==
    { [decision |-> "APPROVE", feedback |-> "lgtm"],
      [decision |-> "EDIT", feedback |-> "tweak",
       edited_content |-> [by |-> "human", n |-> 0]],
      [decision |-> "REJECT", feedback |-> "add edge cases"],
      [decision |-> "approve", feedback |-> "add edge cases"],
      [decision |-> "APPROVE", feedback |-> "lgtm", document_version |-> 1],
      [feedback |-> "add edge cases"],
      EmptyDict }

(* the payload handed to interrupt() *)
review_payload(s, gate_name, document_content_key, document_version_key) ==
    LET judge_eval_key == IF gate_name # "spec"
                          THEN CASE gate_name = "strategy" -> "judge_strategy_evaluation"
                                 [] gate_name = "test_cases" -> "judge_test_cases_evaluation"
                                 [] gate_name = "code_plan" -> "judge_code_plan_evaluation"
                                 [] OTHER -> "judge_code_evaluation"
                          ELSE "judge_requirements_evaluation"
    IN [ gate_name |-> gate_name,
         document_content |-> StateGet(s, document_content_key, NoContent),
         document_version |-> StateGet(s, document_version_key, 1),
         judge_result |-> IF Has(s, judge_eval_key) THEN s[judge_eval_key].result
                          ELSE "N/A",
         judge_feedback |-> IF Has(s, judge_eval_key) THEN s[judge_eval_key].feedback
                            ELSE Text("No judge feedback available.") ]

(* parse_decision with APPROVE as the default of a missing decision *)
parse_decision_default_approve(human_response) ==
    StateGet(human_response, "decision", "APPROVE")

(* the decision read from the resume payload *)
parse_decision(human_response) == StateGet(human_response, "decision", "REJECT")

(* review_next_stage sending an edited document back to its generator *)
review_next_stage_edit_back(decision, approve_stage, reject_stage) ==
    CASE decision = "APPROVE" -> approve_stage
      [] OTHER -> reject_stage

(* the stage chosen by the if / elif / else over the decision *)
review_next_stage(decision, approve_stage, reject_stage) ==
    CASE decision = "APPROVE" -> approve_stage
      [] decision = "EDIT" -> approve_stage
      [] OTHER -> reject_stage

_human_review_base(s, human_response, gate_name, document_content_key, document_version_key, approve_stage, reject_stage) ==
    LET document_version == StateGet(s, document_version_key, 1)
        decision == parse_decision(human_response)
        feedback == StateGet(human_response, "feedback", "")
        edited_content == StateGet(human_response, "edited_content", NoContent)
        approval_gates == StateGet(s, "approval_gates", EmptyDict)
        next_stage == review_next_stage(decision, approve_stage, reject_stage)
        with_gate(gate) ==
            [g \in DOMAIN approval_gates \cup {gate_name} |->
                IF g = gate_name THEN gate ELSE approval_gates[g]]
    IN CASE decision = "APPROVE" ->
              Returned(
                  [ approval_gates |->
                        with_gate(ApprovalGate(gate_name, "approved", "human",
                                               Text(feedback), document_version)),
                    current_stage |-> next_stage ], 0)
         [] decision = "EDIT" ->
              Returned(
                  (document_content_key :> edited_content)
                  @@ ("approval_gates" :>
                        with_gate(ApprovalGate(gate_name, "approved", "human",
                                               <<"Approved with edits: ", feedback>>,
                                               document_version)))
                  @@ ("current_stage" :> next_stage), 0)
         [] OTHER ->
              Returned(
                  [ approval_gates |->
                        with_gate(ApprovalGate(gate_name, "rejected", "human",
                                               Text(feedback), document_version)),
                    human_feedback |-> Text(feedback),
                    current_stage |-> next_stage ], 0)

(* human_review_spec_node with the strategy stage as its reject stage *)
human_review_spec_node_reject_forward(s, human_response) ==
    _human_review_base(s, human_response, "spec", "requirements_spec_content",
                       "current_requirements_spec_version",
                       STRATEGY, STRATEGY)

human_review_spec_node(s, human_response) ==
    _human_review_base(s, human_response, "spec", "requirements_spec_content",
                       "current_requirements_spec_version",
                       STRATEGY, REQUIREMENTS_SPEC_GEN)

(* human_review_strategy_node allocating a new version for an edited document *)
human_review_strategy_node_edit_versions(s, human_response) ==
    LET r == _human_review_base(s, human_response, "strategy", "strategy_content",
                                "current_strategy_version",
                                TEST_CASE_GENERATION, STRATEGY)
    IN IF Has(r.ret, "strategy_content")
       THEN [r EXCEPT !.ret = @ @@ ("current_strategy_version" :>
                                       StateGet(s, "current_strategy_version", 0) + 1)]
       ELSE r

human_review_strategy_node(s, human_response) ==
    _human_review_base(s, human_response, "strategy", "strategy_content",
                       "current_strategy_version",
                       TEST_CASE_GENERATION, STRATEGY)

human_review_test_cases_node(s, human_response) ==
    _human_review_base(s, human_response, "test_cases", "gherkin_content",
                       "current_test_cases_version",
                       CODE_STRUCTURE_PLANNING, TEST_CASE_GENERATION)

(* human_review_code_plan_node storing the feedback of a rejection in the   *)
(* gate only                                                                *)
human_review_code_plan_node_feedback_lost(s, human_response) ==
    LET r == _human_review_base(s, human_response, "code_plan", "code_plan_content",
                                "current_code_plan_version",
                                SCRIPTING, CODE_STRUCTURE_PLANNING)
    IN IF Has(r.ret, "human_feedback")
       THEN [r EXCEPT !.ret = [@ EXCEPT !["human_feedback"] = NoText]]
       ELSE r

human_review_code_plan_node(s, human_response) ==
    _human_review_base(s, human_response, "code_plan", "code_plan_content",
                       "current_code_plan_version",
                       SCRIPTING, CODE_STRUCTURE_PLANNING)

(* human_review_code_node starting the script iterations afresh *)
human_review_code_node_counter_reset(s, human_response) ==
    LET r == _human_review_base(s, human_response, "code", "script_content",
                                "current_script_version",
                                COMPLETED, SCRIPTING)
    IN [r EXCEPT !.ret = @ @@ ("script_iteration_count" :> 0)]

human_review_code_node(s, human_response) ==
    _human_review_base(s, human_response, "code", "script_content",
                       "current_script_version",
                       COMPLETED, SCRIPTING)

-----------------------------------------------------------------------------
(* The graph: one step executes next_node on the checkpointed state, merges *)
(* the returned dict and follows the node's edge.  A step whose node raises,*)
(* or whose routing function returns a key that the node's path map does    *)
(* not contain, is abandoned: its writes are not applied and the exception  *)
(* leaves graph.stream().                                                   *)

route(node, s) ==
    CASE node = "qa_interaction" -> route_after_qa_interaction(s)
      [] node = "judge_requirements" -> route_after_judge_requirements(s)
      [] node = "human_review_spec" -> route_after_human_review_spec(s)
      [] node = "judge_strategy" -> route_after_judge_strategy(s)
      [] node = "human_review_strategy" -> route_after_human_review_strategy(s)
      [] node = "judge_test_cases" -> route_after_judge_test_cases(s)
      [] node = "human_review_test_cases" -> route_after_human_review_test_cases(s)
      [] node = "judge_code_plan" -> route_after_judge_code_plan(s)
      [] node = "human_review_code_plan" -> route_after_human_review_code_plan(s)
      [] node = "judge_code" -> route_after_judge_code(s)
      [] node = "human_review_code" -> route_after_human_review_code(s)

(* destination with the final gate wired to the execution node *)
destination_to_execution(node, new) ==
    IF node = "human_review_code"
    THEN [raised |-> "none", node |-> "execution"]
    ELSE IF node \in DOMAIN edges
         THEN [raised |-> "none", node |-> edges[node]]
         ELSE LET key == route(node, new)
              IN IF key \in DOMAIN conditional_edges[node]
                 THEN [raised |-> "none", node |-> conditional_edges[node][key]]
                 ELSE [raised |-> "KeyError", node |-> node]

(* the node that follows `node` once `new` is the merged state, or the      *)
(* exception raised while looking it up                                     *)
destination(node, new) ==
    IF node \in DOMAIN edges
    THEN [raised |-> "none", node |-> edges[node]]
    ELSE LET key == route(node, new)
         IN IF key \in DOMAIN conditional_edges[node]
            THEN [raised |-> "none", node |-> conditional_edges[node][key]]
            ELSE [raised |-> "KeyError", node |-> node]

Running == escaped = "none" /\ next_node # END

(* the kind's iteration counter, under the key its generator increments *)
KindIterationKey(kind) ==
    CASE kind = "spec" -> "requirements_iteration_count"
      [] kind = "strategy" -> "strategy_iteration_count"
      [] kind = "test_cases" -> "test_cases_iteration_count"
      [] kind = "code_plan" -> "code_plan_iteration_count"
      [] kind = "code" -> "script_iteration_count"

Executed(node, kind, input, result) ==
    [ node |-> node, kind |-> kind, input |-> input, result |-> result,
      counter |-> IF kind \in Kinds THEN StateGet(state, KindIterationKey(kind), 0)
                  ELSE 0 ]

GraphStep(node, kind, input, result) ==
    LET new == StateUpdate(state, result.ret)
        dest == destination(node, new)
    IN /\ last' = Executed(node, kind, input, result)
       /\ IF result.raised # "none"
          THEN /\ escaped' = result.raised
               /\ UNCHANGED <<state, next_node>>
          ELSE IF dest.raised # "none"
               THEN /\ escaped' = dest.raised
                    /\ UNCHANGED <<state, next_node>>
               ELSE /\ state' = new
                    /\ next_node' = dest.node
                    /\ UNCHANGED escaped
       /\ UNCHANGED controller_vars

QaInteraction ==
    /\ Running
    /\ next_node = "qa_interaction"
    /\ \E response \in QAResponses :
          GraphStep("qa_interaction", "none", response,
                    qa_interaction_node(state, response))
    /\ UNCHANGED <<interrupted, gen_runs, gate_entries, generations, used>>

(* The environment leaves the path "generator succeeds, evaluator says PASS, *)
(* human approves" in the cycle of one kind per run, and there within the   *)
(* bounds above; outcomes that end the run are possible everywhere.         *)
MayDeviate(kind) == used.kind \in {"none", kind}

Deviated(kind, choice) == [used EXCEPT !.kind = kind, ![choice] = @ + 1]

GeneratorFailed(result) == Has(result.ret, "error_message")

Generator(node, kind, input, result) ==
    /\ Running
    /\ next_node = node
    /\ gen_runs[kind] < MaxGenRuns
    /\ GeneratorFailed(result) =>
          MayDeviate(kind) /\ used.gen_failures < MaxGenFailures
    /\ GraphStep(node, kind, input, result)
    /\ gen_runs' = [gen_runs EXCEPT ![kind] = @ + 1]
    /\ used' = IF GeneratorFailed(result) THEN Deviated(kind, "gen_failures") ELSE used
    /\ generations' = IF result.raised = "none" /\ ~GeneratorFailed(result)
                      THEN [generations EXCEPT ![kind] = @ + 1]
                      ELSE generations
    /\ UNCHANGED <<interrupted, gate_entries>>

RequirementsSpecGen ==
    \E outcome \in CallOutcomes :
        Generator("requirements_spec_gen", "spec", outcome,
                  requirements_spec_gen_node(state, outcome))

Strategy ==
    \E outcome \in CallOutcomes :
        Generator("strategy", "strategy", outcome, strategy_node(state, outcome))

TestCaseGeneration ==
    \E attempts \in GherkinAttempts :
        Generator("test_case_generation", "test_cases", attempts,
                  test_case_generation_node(state, attempts))

CodeStructurePlanning ==
    \E outcome \in CallOutcomes :
        Generator("code_structure_planning", "code_plan", outcome,
                  code_structure_planning_node(state, outcome))

Scripting ==
    \E outcome \in CallOutcomes :
        Generator("scripting", "code", outcome, scripting_node(state, outcome))

RawVerdict(response) == StateGet(response.json, "result", "none")

Judge(node, kind, response, result) ==
    LET raw == RawVerdict(response)
    IN /\ Running
       /\ next_node = node
       /\ raw = "FAIL" => MayDeviate(kind) /\ used.fails < MaxFails
       /\ raw = "NEEDS_HUMAN" => MayDeviate(kind) /\ used.needs_human < MaxNeedsHuman
       /\ GraphStep(node, kind, response, result)
       /\ used' = CASE raw = "FAIL" -> Deviated(kind, "fails")
                    [] raw = "NEEDS_HUMAN" -> Deviated(kind, "needs_human")
                    [] OTHER -> used
       /\ UNCHANGED <<interrupted, gen_runs, gate_entries, generations>>

JudgeRequirements ==
    \E response \in JudgeResponses :
        Judge("judge_requirements", "spec", response,
              judge_requirements_node(state, response))

JudgeStrategy ==
    \E response \in JudgeResponses :
        Judge("judge_strategy", "strategy", response,
              judge_strategy_node(state, response))

JudgeTestCases ==
    \E response \in JudgeResponses :
        Judge("judge_test_cases", "test_cases", response,
              judge_test_cases_node(state, response))

JudgeCodePlan ==
    \E response \in CodePlanJudgeResponses :
        Judge("judge_code_plan", "code_plan", response,
              judge_code_plan_node(state, response))

JudgeCode ==
    \E response \in JudgeResponses :
        Judge("judge_code", "code", response, judge_code_node(state, response))

(* First execution of a human-review node: interrupt(payload) suspends the  *)
(* run; nothing is written.                                                 *)
Interrupt(node, kind, payload) ==
    /\ Running
    /\ next_node = node
    /\ ~interrupted
    /\ interrupted' = TRUE
    /\ last' = Executed(node, kind, payload, Raised("GraphInterrupt", 0))
    /\ gate_entries' = [gate_entries EXCEPT ![kind] = @ + 1]
    /\ gen_runs' = [gen_runs EXCEPT ![kind] = 0]
    /\ UNCHANGED <<state, next_node, escaped, generations, used>>
    /\ UNCHANGED controller_vars

(* Command(resume=human_response): the node runs again from its start and   *)
(* interrupt() returns the payload.                                         *)
Resume(node, kind, human_response, result) ==
    LET rejected == Has(result.ret, "human_feedback")
        edited == Has(human_response, "edited_content")
    IN /\ Running
       /\ next_node = node
       /\ interrupted
       /\ rejected => MayDeviate(kind) /\ used.rejects < MaxRejects
       /\ edited => MayDeviate(kind) /\ used.edits < MaxEdits
       /\ GraphStep(node, kind, human_response, result)
       /\ interrupted' = FALSE
       /\ used' = CASE rejected -> Deviated(kind, "rejects")
                    [] edited -> Deviated(kind, "edits")
                    [] OTHER -> used
       /\ UNCHANGED <<gen_runs, gate_entries, generations>>

HumanReviewSpec ==
    \/ Interrupt("human_review_spec", "spec",
                 review_payload(state, "spec", "requirements_spec_content",
                                "current_requirements_spec_version"))
    \/ \E human_response \in HumanResponses :
          Resume("human_review_spec", "spec", human_response,
                 human_review_spec_node(state, human_response))

HumanReviewStrategy ==
    \/ Interrupt("human_review_strategy", "strategy",
                 review_payload(state, "strategy", "strategy_content",
                                "current_strategy_version"))
    \/ \E human_response \in HumanResponses :
          Resume("human_review_strategy", "strategy", human_response,
                 human_review_strategy_node(state, human_response))

HumanReviewTestCases ==
    \/ Interrupt("human_review_test_cases", "test_cases",
                 review_payload(state, "test_cases", "gherkin_content",
                                "current_test_cases_version"))
    \/ \E human_response \in HumanResponses :
          Resume("human_review_test_cases", "test_cases", human_response,
                 human_review_test_cases_node(state, human_response))

HumanReviewCodePlan ==
    \/ Interrupt("human_review_code_plan", "code_plan",
                 review_payload(state, "code_plan", "code_plan_content",
                                "current_code_plan_version"))
    \/ \E human_response \in HumanResponses :
          Resume("human_review_code_plan", "code_plan", human_response,
                 human_review_code_plan_node(state, human_response))

HumanReviewCode ==
    \/ Interrupt("human_review_code", "code",
                 review_payload(state, "code", "script_content",
                                "current_script_version"))
    \/ \E human_response \in HumanResponses :
          Resume("human_review_code", "code", human_response,
                 human_review_code_node(state, human_response))

-----------------------------------------------------------------------------

(* The compiled graphs and their checkpointers.  build_graph compiles the    *)
(* graph with get_checkpointer(), which returns a new MemorySaver on every  *)
(* call: every compiled graph has a store of its own, empty at first, that  *)
(* lives in the memory of the process that built it.  A checkpoint is what  *)
(* graph.get_state(config) shows of a thread: the values, the pending node  *)
(* and whether that node waits inside interrupt().                          *)

Instances == {1, 2}

ThreadIds == {"t1", "t2"}

Checkpoint(values, next, interrupt) ==
    [values |-> values, next |-> next, interrupt |-> interrupt]

(* the empty snapshot of a thread the store has no checkpoint of *)
NoCheckpoint == Checkpoint(EmptyDict, "none", FALSE)

get_checkpointer == [t \in ThreadIds |-> NoCheckpoint]

(* MemorySaver.put writing the checkpoint into every thread's slot *)
put_any_thread(storage, thread_id, checkpoint) ==
    [t \in DOMAIN storage |-> checkpoint]

(* MemorySaver.put under config["configurable"]["thread_id"] *)
put(storage, thread_id, checkpoint) ==
    [storage EXCEPT ![thread_id] = checkpoint]

Event(op, instance, thread_id, found, error, node, calls) ==
    [op |-> op, instance |-> instance, thread_id |-> thread_id, found |-> found,
     error |-> error, node |-> node, calls |-> calls]

StartedStates ==
    {create_initial_state}
    \cup { create_initial_state @@ ("max_judge_iterations" :> m) :
             m \in MaxIterationChoices }

Init ==
    /\ state \in StartedStates
    /\ next_node = "qa_interaction"
    /\ interrupted = FALSE
    /\ escaped = "none"
    /\ last = Executed("START", "none", EmptyDict, Returned(EmptyDict, 0))
    /\ gen_runs = [k \in Kinds |-> 0]
    /\ gate_entries = [k \in Kinds |-> 0]
    /\ generations = [k \in Kinds |-> 0]
    /\ used = [kind |-> "none", gen_failures |-> 0, fails |-> 0, needs_human |-> 0,
               edits |-> 0, rejects |-> 0]
    /\ checkpointers = [i \in Instances |-> get_checkpointer]
    /\ streaming = {}
    /\ event = Event("none", 0, "none", NoCheckpoint, "none", "none", 0)
    /\ spent = [steps |-> [t \in ThreadIds |-> 0], calls |-> 0]

Next ==
    \/ QaInteraction
    \/ RequirementsSpecGen
    \/ JudgeRequirements
    \/ HumanReviewSpec
    \/ Strategy
    \/ JudgeStrategy
    \/ HumanReviewStrategy
    \/ TestCaseGeneration
    \/ JudgeTestCases
    \/ HumanReviewTestCases
    \/ CodeStructurePlanning
    \/ JudgeCodePlan
    \/ HumanReviewCodePlan
    \/ Scripting
    \/ JudgeCode
    \/ HumanReviewCode

Spec == Init /\ [][Next]_vars

-----------------------------------------------------------------------------
(* Vocabulary of the properties: the nodes and stages of each kind's cycle  *)
(* as build_graph wires them.                                               *)

KindOrder == << "spec", "strategy", "test_cases", "code_plan", "code" >>

KindGenerator(kind) ==
    CASE kind = "spec" -> REQUIREMENTS_SPEC_GEN
      [] kind = "strategy" -> STRATEGY
      [] kind = "test_cases" -> TEST_CASE_GENERATION
      [] kind = "code_plan" -> CODE_STRUCTURE_PLANNING
      [] kind = "code" -> SCRIPTING

KindJudge(kind) ==
    CASE kind = "spec" -> JUDGE_REQUIREMENTS
      [] kind = "strategy" -> JUDGE_STRATEGY
      [] kind = "test_cases" -> JUDGE_TEST_CASES
      [] kind = "code_plan" -> JUDGE_CODE_PLAN
      [] kind = "code" -> JUDGE_CODE

KindHumanReview(kind) ==
    CASE kind = "spec" -> HUMAN_REVIEW_SPEC
      [] kind = "strategy" -> HUMAN_REVIEW_STRATEGY
      [] kind = "test_cases" -> HUMAN_REVIEW_TEST_CASES
      [] kind = "code_plan" -> HUMAN_REVIEW_CODE_PLAN
      [] kind = "code" -> HUMAN_REVIEW_CODE

(* the stage that follows the approval of the kind's gate *)
KindSuccessor(kind) ==
    CASE kind = "spec" -> STRATEGY
      [] kind = "strategy" -> TEST_CASE_GENERATION
      [] kind = "test_cases" -> CODE_STRUCTURE_PLANNING
      [] kind = "code_plan" -> SCRIPTING
      [] kind = "code" -> COMPLETED

KindEvaluationKey(kind) ==
    CASE kind = "spec" -> "judge_requirements_evaluation"
      [] kind = "strategy" -> "judge_strategy_evaluation"
      [] kind = "test_cases" -> "judge_test_cases_evaluation"
      [] kind = "code_plan" -> "judge_code_plan_evaluation"
      [] kind = "code" -> "judge_code_evaluation"

GeneratorNodes == { KindGenerator(k) : k \in Kinds }

JudgeNodes == { KindJudge(k) : k \in Kinds }

HumanReviewNodes == { KindHumanReview(k) : k \in Kinds }

(* the position of a stage or node in the pipeline: 1..5 inside the cycle   *)
(* of that kind, 6 for COMPLETED, 0 otherwise                               *)
Position(x) ==
    IF x = COMPLETED THEN 6
    ELSE IF \E i \in 1..5 : x \in { KindGenerator(KindOrder[i]), KindJudge(KindOrder[i]),
                                    KindHumanReview(KindOrder[i]) }
         THEN CHOOSE i \in 1..5 : x \in { KindGenerator(KindOrder[i]),
                                          KindJudge(KindOrder[i]),
                                          KindHumanReview(KindOrder[i]) }
         ELSE 0

(* the iteration cap of the run *)
MaxJudgeIterations == StateGet(state, "max_judge_iterations", DefaultMaxJudgeIterations)

(* the last step executed a generator, a judge, the resumed part of a gate  *)
GeneratorRan == last.node \in GeneratorNodes

JudgeRan == last.node \in JudgeNodes

(* the judge returned an evaluation *)
JudgeSucceeded == JudgeRan /\ Has(last.result.ret, KindEvaluationKey(last.kind))

Stored == last.result.ret[KindEvaluationKey(last.kind)]

DecisionTaken == last.node \in HumanReviewNodes /\ last.result.raised = "none"

(* an issue the code-plan judge sends back to planning: a duplicate named   *)
(* in its type or description, or a convention violation described          *)
Critical(issue) ==
    \/ "duplicate" \in Substrings(issue.type) \cup Substrings(issue.description)
    \/ {"convention", "violat"} \subseteq Substrings(issue.description)

-----------------------------------------------------------------------------
C3_GatesApprovedInOrder ==
    \A i \in 1..5 :
        (Position(state["current_stage"]) > i \/ Position(next_node) > i) =>
            /\ gate_entries[KindOrder[i]] >= 1
            /\ state["approval_gates"][KindOrder[i]].status = "approved"
            /\ state["approval_gates"][KindOrder[i]].reviewer = "human"

C3_Witness ==
    /\ state["current_stage"] = COMPLETED
    /\ used.rejects = 1
    /\ \A k \in Kinds : gate_entries[k] >= 1

SpecEvaluationAllFail(n) ==
    /\ JudgeSucceeded
    /\ last.kind = "spec"
    /\ RawVerdict(last.input) = "FAIL"
    /\ used = [kind |-> "spec", gen_failures |-> 0, fails |-> n, needs_human |-> 0,
               edits |-> 0, rejects |-> 0]

C7_GeneratorFailureIsContained ==
    (GeneratorRan /\ (last.result.raised # "none" \/ GeneratorFailed(last.result))) =>
        /\ escaped = "none"
        /\ state["workflow_status"] = "FAILED"
        /\ state["current_stage"] = FAILED
        /\ state["error_message"] # NoText

(* the evaluator call raised, or its output lacks a required field or       *)
(* carries an unknown verdict tag                                           *)
BadEvaluation(response) ==
    \/ response.outcome # "ok"
    \/ \E f \in {"score", "result", "feedback"} : ~Has(response.json, f)
    \/ RawVerdict(response) \notin JudgeResult

(* the texts that name the cause of a bad evaluation *)
Causes(response) ==
    CASE response.outcome = "RuntimeError" -> {"RuntimeError"}
      [] response.outcome = "unparseable" -> {"ValueError"}
      [] OTHER ->
           { "KeyError: " \o f : f \in { g \in {"score", "result", "feedback"} :
                                           ~Has(response.json, g) } }
           \cup (IF Has(response.json, "result") /\ RawVerdict(response) \notin JudgeResult
                 THEN {"ValueError: result"} ELSE {})

C10_OtherDecisionsReject ==
    DecisionTaken =>
        LET advances == StateGet(last.input, "decision", None) \in {"APPROVE", "EDIT"}
        IN /\ ~advances =>
                 /\ state["approval_gates"][last.kind].status = "rejected"
                 /\ state["current_stage"] = KindGenerator(last.kind)
                 /\ next_node = KindGenerator(last.kind)
           /\ Position(state["current_stage"]) > Position(last.node) => advances

C10_Witness ==
    /\ DecisionTaken
    /\ last.input = EmptyDict
    /\ state["approval_gates"][last.kind].status = "rejected"
    /\ next_node = KindGenerator(last.kind)

-----------------------------------------------------------------------------
(* The fields of AgentState that hold each kind's live document.            *)

KindContentKey(kind) ==
    CASE kind = "spec" -> "requirements_spec_content"
      [] kind = "strategy" -> "strategy_content"
      [] kind = "test_cases" -> "gherkin_content"
      [] kind = "code_plan" -> "code_plan_content"
      [] kind = "code" -> "script_content"

KindVersionKey(kind) ==
    CASE kind = "spec" -> "current_requirements_spec_version"
      [] kind = "strategy" -> "current_strategy_version"
      [] kind = "test_cases" -> "current_test_cases_version"
      [] kind = "code_plan" -> "current_code_plan_version"
      [] kind = "code" -> "current_script_version"

KindHistoryKey(kind) ==
    CASE kind = "spec" -> "requirements_spec_history"
      [] kind = "strategy" -> "strategy_history"
      [] kind = "test_cases" -> "test_cases_history"
      [] kind = "code_plan" -> "code_plan_history"
      [] kind = "code" -> "script_history"

Decision == StateGet(last.input, "decision", None)

Gate(kind) == state["approval_gates"][kind]

(* this step resumes a gate with a decision *)
DecisionStep == interrupted /\ ~interrupted'

-----------------------------------------------------------------------------
(* C11: a REJECT decision with feedback f at the gate of a kind, whatever   *)
(* the kind's iteration counter, sets the gate to rejected, the run's       *)
(* human_feedback to f and the stage to the kind's generator.               *)
C11_RejectEffects ==
    (DecisionTaken /\ Decision = "REJECT") =>
        /\ Gate(last.kind).status = "rejected"
        /\ Gate(last.kind).feedback = Text(last.input["feedback"])
        /\ state["human_feedback"] = Text(last.input["feedback"])
        /\ state["current_stage"] = KindGenerator(last.kind)
        /\ next_node = KindGenerator(last.kind)

C11_Witness ==
    /\ DecisionTaken
    /\ Decision = "REJECT"
    /\ last.counter >= MaxJudgeIterations - 1
    /\ state["human_feedback"] = Text("add edge cases")
    /\ next_node = KindGenerator(last.kind)

C13_EditKeepsVersion ==
    [][(DecisionStep /\ StateGet(last'.input, "decision", None) = "EDIT") =>
          LET kind == last'.kind
          IN /\ state'[KindContentKey(kind)] = last'.input["edited_content"]
             /\ state'["approval_gates"][kind].status = "approved"
             /\ state'["approval_gates"][kind].feedback =
                   <<"Approved with edits: ", last'.input["feedback"]>>
             /\ state'[KindVersionKey(kind)] = state[KindVersionKey(kind)]
             /\ state'[KindHistoryKey(kind)] = state[KindHistoryKey(kind)]]_vars

C13_Witness ==
    /\ DecisionTaken
    /\ Decision = "EDIT"
    /\ state[KindContentKey(last.kind)] = [by |-> "human", n |-> 0]
    /\ state[KindVersionKey(last.kind)] = 2
    /\ Len(state[KindHistoryKey(last.kind)]) = 2

C15_HistoryAppendOnly ==
    [][\A kind \in Kinds :
          LET a == state[KindHistoryKey(kind)]
              b == state'[KindHistoryKey(kind)]
          IN Len(a) <= Len(b) /\ \A i \in 1..Len(a) : a[i] = b[i] ]_vars

C15_Witness ==
    /\ Len(state["strategy_history"]) = 2
    /\ Len(state["script_history"]) = 1
    /\ state["strategy_content"] = [by |-> "human", n |-> 0]

Stopped == escaped # "none" \/ next_node = END \/ interrupted

(* C17: whenever driving stops and the stage is neither COMPLETED nor       *)
(* FAILED, the current stage is a human-review stage with a pending         *)
(* interrupt.                                                               *)
C17_StopsOnlyAtGates ==
    (Stopped /\ state["current_stage"] \notin {COMPLETED, FAILED}) =>
        /\ interrupted
        /\ escaped = "none"
        /\ state["current_stage"] \in HumanReviewNodes
        /\ next_node = state["current_stage"]

-----------------------------------------------------------------------------
C29_QaLoopsThenForceProceeds ==
    LET ret == last.result.ret
        asked == last.node = "qa_interaction" /\ Has(ret, "qa_sessions")
    IN /\ StateGet(state, "qa_iteration_count", 0) <= 3
       /\ asked =>
             /\ escaped = "none"
             /\ StateGet(state, "qa_iteration_count", 0) = ret["qa_iteration_count"]
             /\ StateGet(state, "qa_completed", FALSE)
                   = (last.input.can_proceed \/ ret["qa_iteration_count"] = 3)
             /\ next_node = IF StateGet(state, "qa_completed", FALSE)
                            THEN "requirements_spec_gen"
                            ELSE "qa_interaction"

(* C30: accumulated_cost_usd never decreases in any transition; a stage     *)
(* that fails (returns FAILED or lets an exception escape) and a gate       *)
(* decision leave it as it was.                                             *)
C30_CostNeverDecreases ==
    [][ LET cost == StateGet(state, "accumulated_cost_usd", 0)
            cost_after == StateGet(state', "accumulated_cost_usd", 0)
            failed == \/ last'.result.raised # "none"
                      \/ StateGet(last'.result.ret, "current_stage", "none") = FAILED
        IN /\ cost_after >= cost
           /\ failed => cost_after = cost
           /\ DecisionStep => cost_after = cost ]_vars

C30_Witness ==
    /\ GeneratorRan
    /\ GeneratorFailed(last.result)
    /\ state["current_stage"] = FAILED
    /\ used.rejects = 1
    /\ StateGet(state, "accumulated_cost_usd", 0) >= 3

(* the last executed node called a collaborator and the call raised *)
CallRaised ==
    CASE last.node \in {"qa_interaction"} \cup JudgeNodes ->
            last.input.outcome = "RuntimeError"
      [] last.node = TEST_CASE_GENERATION ->
            last.result.calls > 0 /\ last.input[last.result.calls] = "RuntimeError"
      [] last.node \in GeneratorNodes -> last.input = "RuntimeError"
      [] OTHER -> FALSE

(* C28: when every collaborator call returns, driving a run ends, whatever  *)
(* the verdicts and the kind, in one of three ways: suspended at a gate,    *)
(* COMPLETED or FAILED; it ends in no other state.                          *)
C28_DrivingEndsInOutcome ==
    (Stopped /\ ~CallRaised) =>
        \/ interrupted /\ escaped = "none"
        \/ state["current_stage"] \in {COMPLETED, FAILED}

-----------------------------------------------------------------------------
(* The callers of a compiled graph (app.py): _run_pipeline starts a thread, *)
(* _resume_pipeline streams it again with Command(resume=...) or with None, *)
(* graph.get_state reads it.  _stream_graph iterates graph.stream() until   *)
(* the stream ends: at an interrupt, at END, or with an exception, which    *)
(* leaves the checkpoint as it was before the node that raised.  Several    *)
(* threads stream at the same time, one node execution at a step.           *)

(* what the collaborators answer while a thread streams *)
StreamQAResponses ==
    { [outcome |-> "ok", can_proceed |-> TRUE],
      [outcome |-> "ok", can_proceed |-> FALSE] }

StreamCallOutcomes == {"ok", "RuntimeError"}

StreamJudgeResponses ==
    { [outcome |-> "RuntimeError", json |-> EmptyDict],
      [outcome |-> "ok", json |-> JudgeJson(58, "PASS", "fb", << >>)],
      [outcome |-> "ok", json |-> JudgeJson(58, "FAIL", "fb", << >>)] }

(* the decisions a reviewer submits in _render_human_review_gate *)
ResumeValues ==
    { [decision |-> "APPROVE", feedback |-> "lgtm"],
      [decision |-> "REJECT", feedback |-> "add edge cases"] }

(* the results a node other than a gate can give on the values s *)
NodeOutcomes(node, s) ==
    CASE node = "qa_interaction" ->
            { qa_interaction_node(s, r) : r \in StreamQAResponses }
      [] node = "requirements_spec_gen" ->
            { requirements_spec_gen_node(s, o) : o \in StreamCallOutcomes }
      [] node = "strategy" -> { strategy_node(s, o) : o \in StreamCallOutcomes }
      [] node = "test_case_generation" ->
            { test_case_generation_node(s, <<o>>) : o \in {"valid", "RuntimeError"} }
      [] node = "code_structure_planning" ->
            { code_structure_planning_node(s, o) : o \in StreamCallOutcomes }
      [] node = "scripting" -> { scripting_node(s, o) : o \in StreamCallOutcomes }
      [] node = "judge_requirements" ->
            { judge_requirements_node(s, r) : r \in StreamJudgeResponses }
      [] node = "judge_strategy" ->
            { judge_strategy_node(s, r) : r \in StreamJudgeResponses }
      [] node = "judge_test_cases" ->
            { judge_test_cases_node(s, r) : r \in StreamJudgeResponses }
      [] node = "judge_code_plan" ->
            { judge_code_plan_node(s, r) : r \in StreamJudgeResponses }
      [] node = "judge_code" -> { judge_code_node(s, r) : r \in StreamJudgeResponses }

(* the result of a gate node whose interrupt() returns human_response *)
ReviewOutcome(node, s, human_response) ==
    CASE node = "human_review_spec" -> human_review_spec_node(s, human_response)
      [] node = "human_review_strategy" -> human_review_strategy_node(s, human_response)
      [] node = "human_review_test_cases" ->
            human_review_test_cases_node(s, human_response)
      [] node = "human_review_code_plan" ->
            human_review_code_plan_node(s, human_response)
      [] node = "human_review_code" -> human_review_code_node(s, human_response)

(* the checkpoint after the pending node of `checkpoint` gave `result`, and *)
(* the exception that ended the stream, if any                              *)
Commit(checkpoint, result) ==
    LET new == StateUpdate(checkpoint.values, result.ret)
        dest == destination(checkpoint.next, new)
    IN IF result.raised # "none"
       THEN [checkpoint |-> checkpoint, error |-> result.raised]
       ELSE IF dest.raised # "none"
            THEN [checkpoint |-> checkpoint, error |-> dest.raised]
            ELSE [checkpoint |-> Checkpoint(new, dest.node, FALSE), error |-> "none"]

Spend(thread_id, steps, calls) ==
    [steps |-> [spent.steps EXCEPT ![thread_id] = @ + steps],
     calls |-> spent.calls + calls]

(* graph i executes the pending node of thread t with `result` *)
Execute(op, i, t, result, calls) ==
    LET found == checkpointers[i][t]
        committed == Commit(found, result)
        ends == committed.error # "none" \/ committed.checkpoint.next = END
    IN /\ spent.steps[t] < MaxThreadSteps
       /\ checkpointers' = [checkpointers EXCEPT ![i] = put(@, t, committed.checkpoint)]
       /\ streaming' = IF ends THEN streaming \ {<<i, t>>} ELSE streaming \cup {<<i, t>>}
       /\ event' = Event(op, i, t, found, committed.error, found.next, result.calls)
       /\ spent' = Spend(t, 1, calls)

(* the call returns without executing a node *)
Return(op, i, t, error, node) ==
    /\ event' = Event(op, i, t, checkpointers[i][t], error, node, 0)
    /\ spent' = Spend(t, 0, 1)
    /\ UNCHANGED <<checkpointers, streaming>>

(* uuid4(): an id no thread has; the ids are taken in order *)
Unused(t) ==
    /\ \A i \in Instances : checkpointers[i][t] = NoCheckpoint
    /\ t = "t2" => checkpointers[1]["t1"] # NoCheckpoint

(* _run_pipeline: a new thread with the initial state starts streaming; the *)
(* first thread is started on the graph built first                         *)
RunPipeline(i, t) ==
    /\ Unused(t)
    /\ t = "t1" => i = 1
    /\ checkpointers' =
          [checkpointers EXCEPT ![i] =
              put(@, t, Checkpoint(create_initial_state @@ ("thread_id" :> t),
                                   "qa_interaction", FALSE))]
    /\ streaming' = streaming \cup {<<i, t>>}
    /\ event' = Event("run", i, t, NoCheckpoint, "none", "none", 0)
    /\ UNCHANGED spent
    /\ UNCHANGED run_vars

(* one more node of a streaming thread: a gate calls interrupt(), which     *)
(* ends the stream; any other node runs and is committed                    *)
StreamStep(i, t) ==
    LET found == checkpointers[i][t]
    IN /\ <<i, t>> \in streaming
       /\ IF found.next \in HumanReviewNodes
          THEN /\ checkpointers' =
                     [checkpointers EXCEPT ![i] = put(@, t, [found EXCEPT !.interrupt = TRUE])]
               /\ streaming' = streaming \ {<<i, t>>}
               /\ event' = Event("stream", i, t, found, "GraphInterrupt", found.next, 0)
               /\ UNCHANGED spent
          ELSE \E result \in NodeOutcomes(found.next, found.values) :
                  Execute("stream", i, t, result, 0)
       /\ UNCHANGED run_vars

(* _resume_pipeline(): graph.stream(None, config).  The stream takes up the *)
(* thread at its checkpoint: nothing is pending after END, a node waiting   *)
(* in interrupt() is entered again and interrupts again, and a node whose   *)
(* execution had ended the stream with an exception is executed again.      *)
DrivePipeline(i, t) ==
    LET found == checkpointers[i][t]
    IN /\ <<i, t>> \notin streaming
       /\ spent.calls < MaxCalls
       /\ \/ /\ found = NoCheckpoint
             /\ Return("drive", i, t, "EmptyInputError", "none")
          \/ /\ found # NoCheckpoint
             /\ found.next = END
             /\ Return("drive", i, t, "none", "none")
          \/ /\ found.interrupt
             /\ Return("drive", i, t, "GraphInterrupt", found.next)
          \/ /\ found # NoCheckpoint
             /\ found.next # END
             /\ ~found.interrupt
             /\ \E result \in NodeOutcomes(found.next, found.values) :
                   Execute("drive", i, t, result, 1)
       /\ UNCHANGED run_vars

(* _resume_pipeline(resume_value): graph.stream(Command(resume=...)).  The  *)
(* node waiting in interrupt() runs with the value; no caller and no node   *)
(* checks that one is waiting, and without one the stream goes on as it     *)
(* does for None and the value is not read.  A graph whose store has no     *)
(* checkpoint of the thread has nothing to resume.                          *)
ResumePipeline(i, t, resume_value) ==
    LET found == checkpointers[i][t]
    IN /\ <<i, t>> \notin streaming
       /\ \/ /\ found.interrupt
             /\ Execute("resume", i, t,
                        ReviewOutcome(found.next, found.values, resume_value), 0)
          \/ /\ spent.calls < MaxCalls
             /\ found = NoCheckpoint
             /\ \E error \in {"EmptyInputError", "none"} :
                   Return("resume", i, t, error, "none")
          \/ /\ spent.calls < MaxCalls
             /\ found # NoCheckpoint
             /\ found.next = END
             /\ Return("resume", i, t, "none", "none")
          \/ /\ spent.calls < MaxCalls
             /\ found # NoCheckpoint
             /\ found.next # END
             /\ ~found.interrupt
             /\ \E result \in NodeOutcomes(found.next, found.values) :
                   Execute("resume", i, t, result, 1)
       /\ UNCHANGED run_vars

(* graph.get_state(config) *)
GetState(i, t) ==
    /\ spent.calls < MaxCalls
    /\ Return("get_state", i, t, "none", "none")
    /\ UNCHANGED run_vars

ControllerInit == Init /\ state = create_initial_state

ControllerNext ==
    \E i \in Instances, t \in ThreadIds :
        \/ RunPipeline(i, t)
        \/ StreamStep(i, t)
        \/ DrivePipeline(i, t)
        \/ \E resume_value \in ResumeValues : ResumePipeline(i, t, resume_value)
        \/ GetState(i, t)

ControllerSpec == ControllerInit /\ [][ControllerNext]_vars

-----------------------------------------------------------------------------

C22_ResumeNotSuspendedRefused ==
    [][ (/\ event'.op = "resume"
         /\ event'.found # NoCheckpoint
         /\ ~event'.found.interrupt) =>
            /\ event'.error = "NotSuspended"
            /\ checkpointers' = checkpointers
            /\ streaming' = streaming ]_vars

C24_ThreadsIsolated ==
    [][ /\ \A t \in ThreadIds \ {event'.thread_id} : \A i \in Instances :
              /\ checkpointers'[i][t] = checkpointers[i][t]
              /\ (<<i, t>> \in streaming') = (<<i, t>> \in streaming)
        /\ \A t \in ThreadIds : \A i \in Instances :
              checkpointers'[i][t] # NoCheckpoint =>
                  checkpointers'[i][t].values["thread_id"] = t ]_vars

C24_Witness ==
    /\ {<<1, "t1">>, <<1, "t2">>} \subseteq streaming
    /\ event.thread_id = "t2"
    /\ event.node = "requirements_spec_gen"
    /\ spent.steps["t1"] = 1
    /\ checkpointers[1]["t1"].next = "requirements_spec_gen"
    /\ checkpointers[1]["t2"].next = "judge_requirements"

-----------------------------------------------------------------------------
(* C31: a freshly started run has workflow_status RUNNING, current_stage    *)
(* QA_INTERACTION and no error message; its gates are exactly spec,         *)
(* strategy, test_cases, code_plan and code, all pending; every version     *)
(* counter and iteration counter is 0, every history is empty and the       *)
(* accumulated cost is 0.                                                   *)
C31_FreshRun ==
    last.node = "START" =>
        /\ state["workflow_status"] = "RUNNING"
        /\ state["current_stage"] = QA_INTERACTION
        /\ state["error_message"] = NoText
        /\ DOMAIN state["approval_gates"]
              = {"spec", "strategy", "test_cases", "code_plan", "code"}
        /\ \A g \in DOMAIN state["approval_gates"] :
              /\ state["approval_gates"][g].status = "pending"
              /\ state["approval_gates"][g].gate_name = g
        /\ \A k \in Kinds :
              /\ state[KindVersionKey(k)] = 0
              /\ state[KindIterationKey(k)] = 0
              /\ state[KindHistoryKey(k)] = << >>
        /\ state["qa_iteration_count"] = 0
        /\ state["qa_sessions"] = << >>
        /\ state["accumulated_cost_usd"] = 0

C31_Witness ==
    /\ last.node = "START"
    /\ next_node = "qa_interaction"
    /\ ~interrupted
    /\ state["qa_completed"] = FALSE

(* the stages reserved for V2, which are also the names of their nodes *)
V2Stages == {EXECUTION, HEALING, REPORTING}

(* C32: the three V2-reserved stages are unreachable: current_stage is      *)
(* never execution, healing or reporting, none of their nodes is the next   *)
(* to execute and none has executed.                                        *)
C32_V2StagesUnreachable ==
    /\ state["current_stage"] \notin V2Stages
    /\ next_node \notin V2Stages
    /\ last.node \notin V2Stages
    /\ StateGet(last.result.ret, "current_stage", "none") \notin V2Stages

C32_Witness ==
    /\ last.node = "human_review_code"
    /\ state["current_stage"] = COMPLETED
    /\ next_node = END
    /\ escaped = "none"

-----------------------------------------------------------------------------
(* The routing functions on their own: every dict a caller may hand them,   *)
(* with current_stage absent, a member of WorkflowStage, a string (the      *)
(* value of a member or not), or an object of another class.                *)

RoutingInputs ==
    {EmptyDict}
    \cup { ("current_stage" :> v) @@ ("current_stage.__class__" :> c) :
              v \in WorkflowStage, c \in {"WorkflowStage", "str"} }
    \cup { ("current_stage" :> "deploy") @@ ("current_stage.__class__" :> "str"),
           ("current_stage" :> "7") @@ ("current_stage.__class__" :> "int"),
           ("current_stage" :> "None") @@ ("current_stage.__class__" :> "NoneType") }

RoutingInit ==
    /\ state \in RoutingInputs
    /\ next_node = "qa_interaction"
    /\ interrupted = FALSE
    /\ escaped = "none"
    /\ last = Executed("START", "none", EmptyDict, Returned(EmptyDict, 0))
    /\ gen_runs = [k \in Kinds |-> 0]
    /\ gate_entries = [k \in Kinds |-> 0]
    /\ generations = [k \in Kinds |-> 0]
    /\ used = [kind |-> "none", gen_failures |-> 0, fails |-> 0, needs_human |-> 0,
               edits |-> 0, rejects |-> 0]
    /\ checkpointers = [i \in Instances |-> get_checkpointer]
    /\ streaming = {}
    /\ event = Event("none", 0, "none", NoCheckpoint, "none", "none", 0)
    /\ spent = [steps |-> [t \in ThreadIds |-> 0], calls |-> 0]

(* the routing function registered after `node` is applied to the dict,     *)
(* and the caller takes another dict                                        *)
ApplyRoute(node) ==
    /\ last' = [ node |-> node, kind |-> "none", input |-> state,
                 result |-> Returned(("current_stage" :> route(node, state)), 0),
                 counter |-> 0 ]
    /\ state' \in RoutingInputs
    /\ UNCHANGED <<next_node, interrupted, escaped, gen_runs, gate_entries,
                   generations, used>>
    /\ UNCHANGED controller_vars

RoutingSpec ==
    RoutingInit /\ [][\E node \in DOMAIN conditional_edges : ApplyRoute(node)]_vars

(* C33: each of the eleven routing functions returns END when current_stage *)
(* is FAILED (member or the string "failed"), absent, or neither a member   *)
(* nor a string, and otherwise the string value of current_stage, member or *)
(* string alike; the eleven functions agree on every dict.                  *)
C33_RoutingFunctions ==
    last.node \in DOMAIN conditional_edges =>
        LET s == last.input
            returned == last.result.ret["current_stage"]
            class == StateGet(s, "current_stage.__class__", "absent")
        IN /\ returned =
                 IF \/ ~Has(s, "current_stage")
                    \/ class \notin {"WorkflowStage", "str"}
                    \/ s["current_stage"] = "failed"
                 THEN END
                 ELSE s["current_stage"]
           /\ \A node \in DOMAIN conditional_edges : route(node, s) = returned

C33_Witness ==
    /\ last.node = "judge_code"
    /\ Has(last.input, "current_stage")
    /\ last.input["current_stage.__class__"] = "str"
    /\ last.input["current_stage"] = "failed"
    /\ last.result.ret["current_stage"] = END

(* C34: the value the routing function returns after a node that returned   *)
(* is a key of the path map registered for that node in build_graph, so     *)
(* routing never yields a key without a destination.                        *)
C34_RoutingKeyHasDestination ==
    (/\ last.node \in DOMAIN conditional_edges
     /\ last.result.raised = "none")
        => route(last.node, StateUpdate(state, last.result.ret))
               \in DOMAIN conditional_edges[last.node]

(* C35: when the code-plan judge runs with code_plan_iteration_count at      *)
(* max_judge_iterations - 1 or more, a FAIL sends the run to the code-plan   *)
(* gate also when the issues name a duplicate or a convention violation:    *)
(* the iteration cap comes before the critical-issue exception.             *)
C35_CapBeforeCriticalIssues ==
    (/\ JudgeSucceeded
     /\ last.kind = "code_plan"
     /\ last.counter >= MaxJudgeIterations - 1
     /\ RawVerdict(last.input) = "FAIL") =>
        /\ last.result.ret["current_stage"] = HUMAN_REVIEW_CODE_PLAN
        /\ escaped = "none" => next_node = "human_review_code_plan"

C35_Witness ==
    /\ JudgeSucceeded
    /\ last.kind = "code_plan"
    /\ last.counter >= MaxJudgeIterations - 1
    /\ RawVerdict(last.input) = "FAIL"
    /\ \E i \in 1..Len(last.input.json["issues"]) : Critical(last.input.json["issues"][i])
    /\ next_node = "human_review_code_plan"
    /\ interrupted = FALSE

(* the cycle the run is in: the position of current_stage when it belongs   *)
(* to a cycle, else the cycle of the node that executed last (0: none yet)  *)
Cycle(s, l) ==
    IF Position(s["current_stage"]) \in 1..5
    THEN Position(s["current_stage"])
    ELSE Position(l.node)

(* C36: the run moves through the cycles forward only, in the order spec,   *)
(* strategy, test cases, code plan, script: the cycle never becomes an      *)
(* earlier one, and every change of current_stage stays in the cycle,       *)
(* enters the generator of the next cycle, or goes to COMPLETED or FAILED.  *)
C36_CyclesForwardOnly ==
    [][ LET k == Cycle(state, last)
            stage == state'["current_stage"]
        IN /\ Cycle(state', last') >= k
           /\ stage # state["current_stage"] =>
                 \/ k \in 1..5 /\ Position(stage) = k
                 \/ k < 5 /\ stage = KindGenerator(KindOrder[k + 1])
                 \/ k = 5 /\ stage = COMPLETED
                 \/ stage = FAILED ]_vars

C36_Witness ==
    /\ last.node = "human_review_strategy"
    /\ state["current_stage"] = TEST_CASE_GENERATION
    /\ next_node = "test_case_generation"
    /\ state["approval_gates"]["spec"].status = "approved"

(* C37: a decision at the gate of a kind changes nothing but that gate's    *)
(* record, current_stage, human_feedback (only when it rejects) and the     *)
(* kind's content (only when it edits): the other four gates, every version *)
(* counter, history, iteration counter, stored evaluation and the cost stay *)
(* as they were.                                                            *)
C37_DecisionFrame ==
    [][ DecisionStep =>
          LET kind == last'.kind
              decision == parse_decision(last'.input)
              same(key) == /\ Has(state, key) <=> Has(state', key)
                           /\ Has(state, key) => state'[key] = state[key]
          IN /\ \A key \in AgentStateKeys \ { "approval_gates", "current_stage",
                                               "human_feedback", KindContentKey(kind) } :
                   same(key)
             /\ \A g \in Kinds \ {kind} :
                   state'["approval_gates"][g] = state["approval_gates"][g]
             /\ decision \in {"APPROVE", "EDIT"} => same("human_feedback")
             /\ decision # "EDIT" => same(KindContentKey(kind)) ]_vars

C37_Witness ==
    /\ DecisionTaken
    /\ last.node = "human_review_strategy"
    /\ Decision = "EDIT"
    /\ state["strategy_content"] = [by |-> "human", n |-> 0]
    /\ Gate("spec").status = "approved"
    /\ Gate("strategy").status = "approved"
    /\ Gate("test_cases").status = "pending"
    /\ state["accumulated_cost_usd"] > 0
    /\ state["current_stage"] = TEST_CASE_GENERATION

C40_StopsForGoodOnlyCompleted ==
    (escaped # "none" \/ next_node = END) =>
        \/ state["current_stage"] = COMPLETED
        \/ state["error_message"] # NoText
        \/ Has(last.result.ret, "error_message")
        \/ last.result.raised = "OtherError"

====
